---------------------------- MODULE Spec2Model ----------------------------
(***************************************************************************)
(* ClassifyPixels-Unet (classifypixelsunet.py): weight provisioning, model *)
(* construction, input normalisation and the plugin's run method.          *)
(*                                                                         *)
(* Three specifications share the module:                                  *)
(*   Spec       processes running ClassifyPixelsUnet.run against one       *)
(*              shared cache directory (file system, HTTP, model objects)  *)
(*   SpecShape  get_model_3_class / unet_classify as shape arithmetic      *)
(*   SpecNorm   the float32 min-max normalisation of unet_classify         *)
(***************************************************************************)
EXTENDS Integers, Sequences, FiniteSets

VARIABLES
    \* ---- Spec: the shared cache and the processes
    dirExists,    \* os.path.exists(cache_directory)
    fileExists,   \* os.path.exists(weights_filename)
    fileData,     \* content of the weights file, a sequence of bytes
    made,         \* os.makedirs has created the cache directory
    pc,           \* pc[p]: position of process p inside run / unet_initialize
    err,          \* err[p]: the exception raised in p's run, or "none"
    runs,         \* runs[p]: number of invocations of run started by p
    shape,        \* shape[p]: input_shape of the current invocation
    model,        \* model[p]: the local variable model of unet_initialize/run
    fn,           \* fn[p]: the model captured by self.function
    reqs,         \* reqs[p]: params of the GETs issued by p in this invocation
    resp1,        \* resp1[p]: index of the first response (0: none)
    resp,         \* resp[p]: index of the response held in `response` (0: none)
    pos,          \* pos[p]: next chunk of response.iter_content
    written,      \* written[p]: the bytes f has written to the file
    buf,          \* buf[p]: what f.write took and f has not written yet
    read,         \* read[p]: the content load_weights was given (or NoData)
    \* ---- SpecShape
    sdim,         \* <<dim1, dim2>> of the input image
    sgraph,       \* result of get_model_3_class, or NoGraph
    sout,         \* shape of the array unet_classify returned, or <<>>
    spc,          \* "start", "built", "failed", "classified"
    \* ---- SpecNorm
    image,        \* input_image: [exp, px], pixel i is px[i] * 2^exp
    normed,       \* the batch handed to model.predict, or <<>>
    divisor,      \* numpy.max(images) of the shifted image, or -1
    npc           \* "start", "normalized"

vars == <<dirExists, fileExists, fileData, made, pc, err, runs, shape, model, fn,
          reqs, resp1, resp, pos, written, buf, read,
          sdim, sgraph, sout, spc, image, normed, divisor, npc>>

procVars  == <<dirExists, fileExists, fileData, made, pc, err, runs, shape, model,
               fn, reqs, resp1, resp, pos, written, buf, read>>
shapeVars == <<sdim, sgraph, sout, spc>>
normVars  == <<image, normed, divisor, npc>>

(***************************************************************************)
(* Model Builder: get_core, get_model_3_class (shape arithmetic).          *)
(* A feature map is <<rows, cols, channels>>.                              *)
(***************************************************************************)

\* bound: the image sides explored are 1..MaxDim (and 100, the spec's example)
MaxDim == 17

Dims == (1..MaxDim) \cup {100}

\* Convolution2D(filters, k, k, border_mode="same"): spatial size kept
Convolution2D(s, filters) == <<s[1], s[2], filters>>

\* BatchNormalization: shape kept
BatchNormalization(s) == s

\* MaxPooling2D(): pool 2x2, stride 2, border_mode "valid"
MaxPooling2D(s) == <<s[1] \div 2, s[2] \div 2, s[3]>>

\* mutant: UpSampling2D(size=(2, 1)), only the rows are doubled
UpSampling2D_RowsOnly(s) == <<2 * s[1], s[2], s[3]>>

\* UpSampling2D(): size 2x2
UpSampling2D(s) == <<2 * s[1], 2 * s[2], s[3]>>

\* mutant: a merge that compares the rows only
MergeOk_RowsOnly(s, t) == s[1] = t[1]

\* merge(mode="concat", concat_axis=3) accepts only equal rows and cols
MergeOk(s, t) == s[1] = t[1] /\ s[2] = t[2]

merge(s, t) == <<s[1], s[2], s[3] + t[3]>>

\* two Convolution2D + BatchNormalization blocks
ConvBlock(s, filters) ==
    BatchNormalization(Convolution2D(
        BatchNormalization(Convolution2D(s, filters)), filters))

\* A pooling layer whose input has a side below the pool size: the backend
\* either rejects the layer or yields an empty side.
PoolTooSmall(s) == s[1] < 2 \/ s[2] < 2

NoGraph == [status |-> "none"]

(* get_core(dim1, dim2, strict): the layers in source order. strict says     *)
(* whether the backend rejects a pooling layer with a too small input.     *)
(* The result names the first layer that raised, or the shapes of x and y. *)
get_core(dim1, dim2, strict) ==
    LET x  == <<dim1, dim2, 1>>
        a  == ConvBlock(x, 64)
        y1 == MaxPooling2D(a)
        b  == ConvBlock(y1, 128)
        y2 == MaxPooling2D(b)
        c  == ConvBlock(y2, 256)
        y3 == MaxPooling2D(c)
        d  == ConvBlock(y3, 512)
        du == UpSampling2D(d)
        e  == ConvBlock(merge(du, c), 256)
        eu == UpSampling2D(e)
        f  == ConvBlock(merge(eu, b), 128)
        fu == UpSampling2D(f)
        y  == ConvBlock(merge(fu, a), 64)
    IN  IF strict /\ PoolTooSmall(a) THEN [status |-> "pool_error", at |-> 1]
        ELSE IF strict /\ PoolTooSmall(b) THEN [status |-> "pool_error", at |-> 2]
        ELSE IF strict /\ PoolTooSmall(c) THEN [status |-> "pool_error", at |-> 3]
        ELSE IF ~MergeOk(du, c) THEN [status |-> "merge_error", at |-> 1]
        ELSE IF ~MergeOk(eu, b) THEN [status |-> "merge_error", at |-> 2]
        ELSE IF ~MergeOk(fu, a) THEN [status |-> "merge_error", at |-> 3]
        ELSE [status |-> "ok", x |-> x, y |-> y,
              merges |-> << <<du, c>>, <<eu, b>>, <<fu, a>> >>]

\* get_model_3_class: the 1x1 convolution to 3 channels and the softmax
get_model_3_class(dim1, dim2, strict) ==
    LET core == get_core(dim1, dim2, strict)
    IN  IF core.status # "ok" THEN core
        ELSE [core EXCEPT !.y = Convolution2D(core.y, 3)]

\* unet_classify's result shape: predict on (1, dim1, dim2, 1), item 0
unet_classify_shape(g, in) ==
    IF g.status = "ok" /\ g.x = <<in[1], in[2], 1>> THEN g.y ELSE <<>>


(***************************************************************************)
(* SpecShape: one image shape, model construction, then classification.    *)
(***************************************************************************)

InitProcIdle ==
    /\ dirExists = FALSE /\ fileExists = FALSE /\ fileData = <<>>
    /\ made = FALSE
    /\ pc = <<>> /\ err = <<>> /\ runs = <<>> /\ shape = <<>>
    /\ model = <<>> /\ fn = <<>> /\ reqs = <<>> /\ resp1 = <<>>
    /\ resp = <<>> /\ pos = <<>> /\ written = <<>> /\ buf = <<>>
    /\ read = <<>>

InitShapeIdle ==
    sdim = <<>> /\ sgraph = NoGraph /\ sout = <<>> /\ spc = "idle"

InitNormIdle ==
    image = <<>> /\ normed = <<>> /\ divisor = -1 /\ npc = "idle"

InitShape ==
    /\ sdim \in Dims \X Dims
    /\ sgraph = NoGraph /\ sout = <<>> /\ spc = "start"
    /\ InitProcIdle /\ InitNormIdle

\* unet_initialize, line 121: model = get_model_3_class(dim1, dim2)
ShapeBuild ==
    /\ spc = "start"
    /\ \E strict \in BOOLEAN :
          sgraph' = get_model_3_class(sdim[1], sdim[2], strict)
    /\ spc' = IF sgraph'.status = "ok" THEN "built" ELSE "failed"
    /\ UNCHANGED <<sdim, sout, procVars, normVars>>

\* unet_classify on the image the model was built for
ShapeClassify ==
    /\ spc = "built"
    /\ sout' = unet_classify_shape(sgraph, sdim)
    /\ spc' = "classified"
    /\ UNCHANGED <<sdim, sgraph, procVars, normVars>>

NextShape == ShapeBuild \/ ShapeClassify

SpecShape == InitShape /\ [][NextShape]_vars

Mult8(n) == n % 8 = 0

\* C3: for H and W positive multiples of 8 the three skip-connection merges
\* join feature maps of equal rows and cols (H x W, H/2 x W/2, H/4 x W/4
\* from last to first), construction succeeds, and unet_classify returns an
\* array of shape (H, W, 3).
C3_Multiple8Shape ==
    (spc # "start" /\ Mult8(sdim[1]) /\ Mult8(sdim[2])) =>
        /\ sgraph.status = "ok"
        /\ \A k \in 1..3 :
              /\ MergeOk(sgraph.merges[k][1], sgraph.merges[k][2])
              /\ sgraph.merges[k][1][1] * (2 ^ (3 - k)) = sdim[1]
              /\ sgraph.merges[k][1][2] * (2 ^ (3 - k)) = sdim[2]
        /\ spc = "classified" => sout = <<sdim[1], sdim[2], 3>>

C3_Witness ==
    spc = "classified" /\ sdim = <<16, 8>> /\ sout = <<16, 8, 3>>

\* C4 (as claimed): every shape with a side not divisible by 8 ends in an
\* error raised by a skip-connection merge, and no output is produced.
C4_Original ==
    (spc # "start" /\ ~(Mult8(sdim[1]) /\ Mult8(sdim[2]))) =>
        /\ spc = "failed" /\ sgraph.status = "merge_error" /\ sout = <<>>

\* C4 (amended): every shape with a side not divisible by 8 ends in a fatal
\* error during model construction and no output array is produced; the
\* error is a dimension mismatch at a skip-connection merge whenever both
\* sides are at least 8, and for a side below 8 it is that mismatch or the
\* backend's rejection of a pooling layer whose input side is below 2.
C4_NonMultiple8Fails ==
    (spc # "start" /\ ~(Mult8(sdim[1]) /\ Mult8(sdim[2]))) =>
        /\ spc = "failed" /\ sout = <<>>
        /\ sgraph.status \in {"merge_error", "pool_error"}
        /\ sgraph.status = "pool_error" => (sdim[1] < 8 \/ sdim[2] < 8)

C4_Witness ==
    spc = "failed" /\ sdim = <<100, 100>> /\ sgraph.status = "merge_error"
        /\ sgraph.at = 1


(***************************************************************************)
(* Inference Runner: the normalisation of unet_classify in numpy.float32.  *)
(* Pixels are non-negative integers; a float32 holding an integer is kept  *)
(* as that integer, a quotient as mantissa and exponent (m * 2^e).         *)
(***************************************************************************)

\* numpy.float32: 24 significant bits
MantBits == 24

\* bound: number of pixels of the image
ImgPixels == 4

\* an image is its pixels as integers px[i] and one exponent exp: pixel i
\* has the value px[i] * 2^exp. With exp = 0 the pixels are integers, with
\* exp < 0 fractions (exp = -2: 0.25, 0.5, 1.0; exp = -25: values within
\* [0, 1] that need more than 24 bits)
Exps == {0, -2, -25}

\* pixel values explored, in units of 2^exp: small ones, a negative one, and
\* values around 2^24, where float32 cannot tell neighbours apart
Pixels == {-1, 0, 1, 2, 4, 16777215, 16777216, 16777217, 16777220, 16777222}

RECURSIVE DropBits(_, _)
\* the number of low bits an integer n >= 0 loses in MantBits bits
DropBits(n, k) == IF n < 2 ^ (MantBits + k) THEN k ELSE DropBits(n, k + 1)

\* an integer n >= 0 rounded to MantBits significant bits: round to nearest,
\* ties to even
RoundMag(n) ==
    LET k == DropBits(n, 0)
        u == 2 ^ k
        q == n \div u
        r == n % u
        up == k > 0 /\ (2 * r > u \/ (2 * r = u /\ q % 2 = 1))
    IN  IF k = 0 THEN n ELSE (IF up THEN q + 1 ELSE q) * u

\* the float32 nearest to n * 2^exp, in units of 2^exp: astype(numpy.float32)
\* of a pixel, and the rounding of an exact result
Round32(n) == IF n < 0 THEN -RoundMag(-n) ELSE RoundMag(n)

FZero == [kind |-> "num", m |-> 0, e |-> 0]
FOne  == [kind |-> "num", m |-> 2 ^ (MantBits - 1), e |-> 1 - MantBits]
FNaN  == [kind |-> "nan", m |-> 0, e |-> 0]
FInf  == [kind |-> "inf", m |-> 0, e |-> 0]

RECURSIVE NormShift(_, _, _)
\* least k with x * 2^k >= d, for 0 < x <= d
NormShift(x, d, k) == IF x >= d THEN <<x, k>> ELSE NormShift(2 * x, d, k + 1)

RECURSIVE DivBits(_, _, _, _)
\* n further quotient bits of r / d by long division
DivBits(r, d, n, acc) ==
    IF n = 0 THEN <<acc, r>>
    ELSE LET bit == IF 2 * r >= d THEN 1 ELSE 0
         IN  DivBits(2 * r - bit * d, d, n - 1, 2 * acc + bit)

\* float32 division of x * 2^exp by d * 2^exp, 0 <= x <= d: the quotient
\* m * 2^e with MantBits significant bits, round to nearest, ties to even
FDiv(x, d) ==
    IF d = 0 THEN (IF x = 0 THEN FNaN ELSE FInf)
    ELSE IF x = 0 THEN FZero
    ELSE LET ns  == NormShift(x, d, 0)
             qr  == DivBits(ns[1] - d, d, MantBits - 1, 1)
             acc == qr[1]
             r   == qr[2]
             up  == 2 * r > d \/ (2 * r = d /\ acc % 2 = 1)
             m1  == IF up THEN acc + 1 ELSE acc
         IN  IF m1 = 2 ^ MantBits
             THEN [kind |-> "num", m |-> 2 ^ (MantBits - 1),
                   e |-> 2 - MantBits - ns[2]]
             ELSE [kind |-> "num", m |-> m1, e |-> 1 - MantBits - ns[2]]

\* a < b for two finite float32 values >= 0
FLess(a, b) ==
    /\ a.kind = "num" /\ b.kind = "num" /\ b.m > 0
    /\ (a.m = 0 \/ a.e < b.e \/ (a.e = b.e /\ a.m < b.m))

\* a <= b for two finite float32 values >= 0
FLeq(a, b) == a.kind = "num" /\ b.kind = "num" /\ (a = b \/ FLess(a, b))

SeqMin(s) == CHOOSE x \in {s[i] : i \in DOMAIN s} :
                 \A y \in {s[i] : i \in DOMAIN s} : x <= y
SeqMax(s) == CHOOSE x \in {s[i] : i \in DOMAIN s} :
                 \A y \in {s[i] : i \in DOMAIN s} : x >= y

\* line 150: images.astype(numpy.float32)
astype_float32(img) ==
    [exp |-> img.exp, px |-> [i \in DOMAIN img.px |-> Round32(img.px[i])]]

\* mutant: the minimum is not subtracted
shift_min_NoShift(f) == f

\* line 151: images - numpy.min(images), a float32 subtraction
shift_min(f) ==
    [exp |-> f.exp,
     px |-> [i \in DOMAIN f.px |-> Round32(f.px[i] - SeqMin(f.px))]]

\* line 152: the divisor numpy.max(images) of the shifted image, in units
\* of 2^exp
norm_divisor(sh) == SeqMax(sh.px)

\* lines 150-152 of unet_classify
normalize(img) ==
    LET sh == shift_min(astype_float32(img))
    IN  [i \in DOMAIN sh.px |-> FDiv(sh.px[i], norm_divisor(sh))]

InitNorm ==
    /\ image \in [exp : Exps, px : [1..ImgPixels -> Pixels]]
    /\ normed = <<>> /\ divisor = -1 /\ npc = "start"
    /\ InitProcIdle /\ InitShapeIdle

\* unet_classify up to the call of model.predict
Normalize ==
    /\ npc = "start"
    /\ normed' = normalize(image)
    /\ divisor' = norm_divisor(shift_min(astype_float32(image)))
    /\ npc' = "normalized"
    /\ UNCHANGED <<image, procVars, shapeVars>>

\* model.predict returns; the image is released
NormDone ==
    /\ npc = "normalized"
    /\ npc' = "done"
    /\ UNCHANGED <<image, normed, divisor, procVars, shapeVars>>

NextNorm == Normalize \/ NormDone

SpecNorm == InitNorm /\ [][NextNorm]_vars

PixelSet == {image.px[i] : i \in DOMAIN image.px}
Uniform == Cardinality(PixelSet) = 1

\* what the claim says of an image with at least two distinct values
MinMaxNormalized ==
    \A i \in DOMAIN image.px :
        /\ image.px[i] = SeqMin(image.px) => normed[i] = FZero
        /\ image.px[i] = SeqMax(image.px) => normed[i] = FOne
        /\ (image.px[i] # SeqMin(image.px) /\ image.px[i] # SeqMax(image.px)) =>
               (FLess(FZero, normed[i]) /\ FLess(normed[i], FOne))
        /\ \A j \in DOMAIN image.px :
               image.px[i] < image.px[j] => FLess(normed[i], normed[j])

\* C7 (as claimed): every image with two distinct pixel values is mapped to
\* min -> 0, max -> 1, the rest strictly between, order preserved; a uniform
\* image has divisor 0.
C7_Original ==
    npc = "normalized" =>
        /\ ~Uniform => MinMaxNormalized
        /\ Uniform => divisor = 0

\* the pixel values are held exactly by float32 and so are their differences:
\* multiples of one power of two, less than 2^24 of these units apart
ExactPixels ==
    /\ \A i \in DOMAIN image.px : Round32(image.px[i]) = image.px[i]
    /\ SeqMax(image.px) - SeqMin(image.px) < 2 ^ MantBits

\* min -> 0, max -> 1, every pixel within [0, 1], order never inverted
WeaklyNormalized ==
    \A i \in DOMAIN image.px :
        /\ image.px[i] = SeqMin(image.px) => normed[i] = FZero
        /\ image.px[i] = SeqMax(image.px) => normed[i] = FOne
        /\ FLeq(FZero, normed[i]) /\ FLeq(normed[i], FOne)
        /\ \A j \in DOMAIN image.px :
               image.px[i] <= image.px[j] => FLeq(normed[i], normed[j])

\* C7 (amended): for every image, of integer or of fractional pixel values:
\* the divisor is 0, and every normalised pixel NaN, exactly when all pixels
\* are equal after the conversion to float32 (a uniform image, or one whose
\* distinct values round to the same float32, as 16777216 and 16777217);
\* otherwise every minimum pixel is mapped to 0, every maximum pixel to 1,
\* every pixel into [0, 1], and the order of the pixels is never inverted.
\* Every other pixel lies strictly between 0 and 1 and the order is strictly
\* preserved whenever float32 holds the pixel values exactly and they are
\* multiples of one power of two less than 2^24 of these units apart.
C7_Normalization ==
    npc = "normalized" =>
        /\ divisor = 0 <=>
              \A i, j \in DOMAIN image.px :
                  Round32(image.px[i]) = Round32(image.px[j])
        /\ divisor = 0 => \A i \in DOMAIN normed : normed[i] = FNaN
        /\ divisor # 0 => WeaklyNormalized
        /\ (ExactPixels /\ ~Uniform) => MinMaxNormalized

\* the image (1.0, 0.0, 0.25, 0.5), two pixels between the minimum and the
\* maximum: normalised to 1, 0, 0.25, 0.5
C7_Witness ==
    /\ npc = "normalized" /\ image = [exp |-> -2, px |-> <<4, 0, 1, 2>>]
    /\ normed[1] = FOne /\ normed[2] = FZero
    /\ normed[3] = [kind |-> "num", m |-> 2 ^ (MantBits - 1), e |-> -1 - MantBits]
    /\ normed[4] = [kind |-> "num", m |-> 2 ^ (MantBits - 1), e |-> -MantBits]
    /\ FLess(normed[3], normed[4])


(***************************************************************************)
(* Weight Provisioner and Plugin Adapter: processes that run               *)
(* ClassifyPixelsUnet.run against one shared cache path.                   *)
(***************************************************************************)

\* the processes sharing the cache directory
Procs == {1, 2}

\* bound: invocations of run by the host, over all processes
MaxRuns == 3

RECURSIVE SumOver(_, _)
SumOver(f, S) ==
    IF S = {} THEN 0
    ELSE LET x == CHOOSE y \in S : TRUE IN f[x] + SumOver(f, S \ {x})

\* image shapes handed to run: two valid ones and one that cannot be built
ImageShapes == {<<8, 8>>, <<16, 8>>, <<12, 8>>}

\* model_id, line 136
ModelId == "1I9j4oABbcV8EnvO_ufACXP9e4KyfHMtE"

\* a string as its characters, for startswith
WarnPrefix == <<"d","o","w","n","l","o","a","d","_","w","a","r","n","i","n","g">>
KeyWarnA == WarnPrefix \o <<"_", "a">>
KeyNear  == <<"x">> \o WarnPrefix
KeyNID   == <<"N", "I", "D">>

\* str.startswith
startswith(key, prefix) ==
    Len(key) >= Len(prefix) /\ SubSeq(key, 1, Len(prefix)) = prefix

\* Python None (no cookie value is this string)
None == "None"

RECURSIVE confirm_token_from(_, _)
\* the loop of get_confirm_token from cookie i on: cookies are <<key, value>>
confirm_token_from(cookies, i) ==
    IF i > Len(cookies) THEN None
    ELSE IF startswith(cookies[i][1], WarnPrefix) THEN cookies[i][2]
    ELSE confirm_token_from(cookies, i + 1)

get_confirm_token(response) == confirm_token_from(response.cookies, 1)

\* mutant: `if token is not None:`
Truthy_NotNone(token) == token # None

\* Python truth value of `token` (None or a str)
Truthy(token) == token # None /\ token # ""

\* the content of the complete checkpoint, byte by byte
WeightsFile == <<"w1", "w2", "w3">>

\* what the hosting service may answer to a GET; a body is the chunks
\* iter_content yields, each a string of bytes, chunks of unequal length
Responses == <<
    \* the file itself, streamed with a keep-alive chunk; the last chunk
    \* is the shorter one
    [status |-> 200, cookies |-> << <<KeyNID, "n">>, <<KeyNear, "t3">> >>,
     body |-> << <<"w1", "w2">>, <<>>, <<"w3">> >>],
    \* the large-file warning page with its confirmation cookie
    [status |-> 200, cookies |-> << <<KeyNID, "n">>, <<KeyWarnA, "t1">> >>,
     body |-> << <<"c1">> >>],
    \* unknown identifier: an error response with an error page
    [status |-> 404, cookies |-> <<>>, body |-> << <<"e1", "e2">> >>],
    \* a warning cookie with an empty value, before one with a value
    [status |-> 200, cookies |-> << <<KeyWarnA, "">>, <<WarnPrefix, "t2">> >>,
     body |-> << <<"c1">> >>] >>

RECURSIVE Bytes(_)
\* the content of a sequence of chunks
Bytes(chunks) ==
    IF chunks = <<>> THEN <<>> ELSE Head(chunks) \o Bytes(Tail(chunks))

RespIds == 1..Len(Responses)

NoData  == <<"none">>
NoModel == [run |-> 0, shape |-> <<>>, weights |-> NoData]
\* a byte of a hole: never written, read as zero
Hole    == "hole"

\* a write of one byte at offset off (1-based); a write behind the end of
\* the file leaves a hole
WriteAt(data, off, byte) ==
    IF off <= Len(data) THEN [data EXCEPT ![off] = byte]
    ELSE data \o [i \in 1..(off - Len(data) - 1) |-> Hole] \o <<byte>>

Body(p) == Responses[resp[p]].body

RECURSIVE FlushTo(_, _, _)
\* write(2) of bytes at the handle's offset, behind the first off bytes
FlushTo(data, off, bytes) ==
    IF bytes = <<>> THEN data
    ELSE FlushTo(WriteAt(data, off + 1, Head(bytes)), off + 1, Tail(bytes))

InitFiles ==
    \/ dirExists = FALSE /\ fileExists = FALSE /\ fileData = <<>>
    \/ dirExists = TRUE  /\ fileExists = FALSE /\ fileData = <<>>
    \/ dirExists = TRUE  /\ fileExists = TRUE
                         /\ fileData \in {WeightsFile, <<"w1">>, <<>>}

Init ==
    /\ InitFiles
    /\ made = FALSE
    /\ pc = [p \in Procs |-> "idle"]
    /\ err = [p \in Procs |-> "none"]
    /\ runs = [p \in Procs |-> 0]
    /\ shape = [p \in Procs |-> <<>>]
    /\ model = [p \in Procs |-> NoModel]
    /\ fn = [p \in Procs |-> NoModel]
    /\ reqs = [p \in Procs |-> <<>>]
    /\ resp1 = [p \in Procs |-> 0]
    /\ resp = [p \in Procs |-> 0]
    /\ pos = [p \in Procs |-> 0]
    /\ written = [p \in Procs |-> <<>>]
    /\ buf = [p \in Procs |-> <<>>]
    /\ read = [p \in Procs |-> NoData]
    /\ InitShapeIdle /\ InitNormIdle

fsVars == <<dirExists, fileExists, fileData, made>>
netVars == <<reqs, resp1, resp, pos, written, buf>>

\* the argument and the locals of run and of the functions it calls
lclVars == <<shape, model, resp, pos, written, buf>>

\* an exception leaves unet_initialize / run: their locals are gone
Raise(p, e) ==
    /\ pc' = [pc EXCEPT ![p] = "error"]
    /\ err' = [err EXCEPT ![p] = e]
    /\ shape' = [shape EXCEPT ![p] = <<>>]
    /\ model' = [model EXCEPT ![p] = NoModel]
    /\ resp' = [resp EXCEPT ![p] = 0]
    /\ pos' = [pos EXCEPT ![p] = 0]
    /\ written' = [written EXCEPT ![p] = <<>>]
    /\ buf' = [buf EXCEPT ![p] = <<>>]
Goto(p, l) == pc' = [pc EXCEPT ![p] = l] /\ UNCHANGED err

\* run, lines 100-106: the host invokes run on the next image
Run(p) ==
    /\ pc[p] \in {"idle", "done", "error"}
    /\ SumOver(runs, Procs) < MaxRuns
    /\ \E sh \in ImageShapes : shape' = [shape EXCEPT ![p] = sh]
    /\ runs' = [runs EXCEPT ![p] = @ + 1]
    /\ pc' = [pc EXCEPT ![p] = "build"]
    /\ err' = [err EXCEPT ![p] = "none"]
    /\ model' = [model EXCEPT ![p] = NoModel]
    /\ reqs' = [reqs EXCEPT ![p] = <<>>]
    /\ resp1' = [resp1 EXCEPT ![p] = 0]
    /\ resp' = [resp EXCEPT ![p] = 0]
    /\ pos' = [pos EXCEPT ![p] = 0]
    /\ written' = [written EXCEPT ![p] = <<>>]
    /\ buf' = [buf EXCEPT ![p] = <<>>]
    /\ read' = [read EXCEPT ![p] = NoData]
    /\ UNCHANGED <<fsVars, fn, shapeVars, normVars>>

\* mutant: the model of the previous invocation is reused for an image of
\* the same shape
Build_Cached(p) ==
    /\ pc[p] = "build"
    /\ IF fn[p] # NoModel /\ fn[p].shape = shape[p]
       THEN /\ model' = [model EXCEPT ![p] = fn[p]]
            /\ Goto(p, "install")
            /\ UNCHANGED <<shape, resp, pos, written, buf>>
       ELSE \E strict \in BOOLEAN :
              LET g == get_model_3_class(shape[p][1], shape[p][2], strict)
              IN  IF g.status = "ok"
                  THEN /\ model' = [model EXCEPT ![p] =
                              [run |-> runs[p], shape |-> shape[p], weights |-> NoData]]
                       /\ Goto(p, "check")
                       /\ UNCHANGED <<shape, resp, pos, written, buf>>
                  ELSE Raise(p, g.status)
    /\ UNCHANGED <<fsVars, runs, fn, reqs, resp1, read, shapeVars, normVars>>

\* unet_initialize, lines 118-121: a new model for this input_shape
Build(p) ==
    /\ pc[p] = "build"
    /\ \E strict \in BOOLEAN :
          LET g == get_model_3_class(shape[p][1], shape[p][2], strict)
          IN  IF g.status = "ok"
              THEN /\ model' = [model EXCEPT ![p] =
                          [run |-> runs[p], shape |-> shape[p], weights |-> NoData]]
                   /\ Goto(p, "check")
                   /\ UNCHANGED <<shape, resp, pos, written, buf>>
              ELSE Raise(p, g.status)
    /\ UNCHANGED <<fsVars, runs, fn, reqs, resp1, read, shapeVars, normVars>>

\* mutant: an existing file is accepted only if it is the complete checkpoint
Check_Verifying(p) ==
    /\ pc[p] = "check"
    /\ Goto(p, IF fileExists /\ fileData = WeightsFile THEN "load" ELSE "checkdir")
    /\ UNCHANGED <<fsVars, runs, shape, model, fn, netVars, read,
                   shapeVars, normVars>>

\* mutant: the test is made on the cache directory instead of the file
Check_DirOnly(p) ==
    /\ pc[p] = "check"
    /\ Goto(p, IF dirExists THEN "load" ELSE "checkdir")
    /\ UNCHANGED <<fsVars, runs, shape, model, fn, netVars, read,
                   shapeVars, normVars>>

\* mutant: the check waits while another process is inside the download
Check_Locked(p) ==
    /\ pc[p] = "check"
    /\ \A q \in Procs \ {p} :
          pc[q] \notin {"checkdir", "mkdir", "get1", "get2", "open", "write",
                         "fwrite", "flushing", "closing"}
    /\ Goto(p, IF fileExists THEN "load" ELSE "checkdir")
    /\ UNCHANGED <<fsVars, runs, shape, model, fn, netVars, read,
                   shapeVars, normVars>>

\* line 129: if not os.path.exists(weights_filename)
Check(p) ==
    /\ pc[p] = "check"
    /\ Goto(p, IF fileExists THEN "load" ELSE "checkdir")
    /\ UNCHANGED <<fsVars, runs, shape, model, fn, netVars, read,
                   shapeVars, normVars>>

\* lines 130-131: if not os.path.exists(cache_directory)
CheckDir(p) ==
    /\ pc[p] = "checkdir"
    /\ Goto(p, IF dirExists THEN "get1" ELSE "mkdir")
    /\ UNCHANGED <<fsVars, runs, shape, model, fn, netVars, read,
                   shapeVars, normVars>>

\* line 132: os.makedirs raises on an absent directory it cannot create
\* (no permission, read-only file system)
MakeDirsFail(p) ==
    /\ pc[p] = "mkdir"
    /\ ~dirExists
    /\ Raise(p, "OSError")
    /\ UNCHANGED <<fsVars, runs, fn, reqs, resp1, read, shapeVars, normVars>>

\* line 132: os.makedirs creates the directory, and raises when the
\* directory exists by now
MakeDirs(p) ==
    /\ pc[p] = "mkdir"
    /\ IF dirExists
       THEN Raise(p, "OSError") /\ UNCHANGED <<dirExists, made>>
       ELSE /\ dirExists' = TRUE /\ made' = TRUE /\ Goto(p, "get1")
            /\ UNCHANGED lclVars
    /\ UNCHANGED <<fileExists, fileData, runs, fn, reqs, resp1, read,
                   shapeVars, normVars>>

\* lines 249-252: the first GET, get_confirm_token, `if token:`
Get1(p) ==
    /\ pc[p] = "get1"
    /\ \E r \in RespIds :
          /\ reqs' = [reqs EXCEPT ![p] = Append(@, [id |-> ModelId])]
          /\ resp1' = [resp1 EXCEPT ![p] = r]
          /\ resp' = [resp EXCEPT ![p] = r]
          /\ Goto(p, IF Truthy(get_confirm_token(Responses[r]))
                     THEN "get2" ELSE "open")
    /\ UNCHANGED <<fsVars, runs, shape, model, fn, pos, written, buf, read,
                   shapeVars, normVars>>

\* line 249: session.get raises (no connection)
Get1Fail(p) ==
    /\ pc[p] = "get1"
    /\ reqs' = [reqs EXCEPT ![p] = Append(@, [id |-> ModelId])]
    /\ Raise(p, "ConnectionError")
    /\ UNCHANGED <<fsVars, runs, fn, resp1, read, shapeVars, normVars>>

\* lines 253-257: the second GET, with confirm
Get2(p) ==
    /\ pc[p] = "get2"
    /\ \E r \in RespIds :
          /\ reqs' = [reqs EXCEPT ![p] = Append(@,
                 [id |-> ModelId,
                  confirm |-> get_confirm_token(Responses[resp1[p]])])]
          /\ resp' = [resp EXCEPT ![p] = r]
    /\ Goto(p, "open")
    /\ UNCHANGED <<fsVars, runs, shape, model, fn, resp1, pos, written, buf,
                   read, shapeVars, normVars>>

\* line 257: session.get raises (no connection)
Get2Fail(p) ==
    /\ pc[p] = "get2"
    /\ reqs' = [reqs EXCEPT ![p] = Append(@,
           [id |-> ModelId,
            confirm |-> get_confirm_token(Responses[resp1[p]])])]
    /\ Raise(p, "ConnectionError")
    /\ UNCHANGED <<fsVars, runs, fn, resp1, read, shapeVars, normVars>>

\* line 273: open(destination, "wb") creates or truncates the file; the
\* file object has an empty buffer
Open(p) ==
    /\ pc[p] = "open"
    /\ fileExists' = TRUE
    /\ fileData' = <<>>
    /\ pos' = [pos EXCEPT ![p] = 1]
    /\ written' = [written EXCEPT ![p] = <<>>]
    /\ buf' = [buf EXCEPT ![p] = <<>>]
    /\ Goto(p, "write")
    /\ UNCHANGED <<dirExists, made, runs, shape, model, fn, reqs, resp1, resp,
                   read, shapeVars, normVars>>

\* line 273: open raises (no permission, no space for the entry)
OpenFail(p) ==
    /\ pc[p] = "open"
    /\ Raise(p, "IOError")
    /\ UNCHANGED <<fsVars, runs, fn, reqs, resp1, read, shapeVars, normVars>>

\* the file after a write(2) of the first n bytes f holds, at its offset
Flushed(p, n) == FlushTo(fileData, Len(written[p]), SubSeq(buf[p], 1, n))

\* lines 274-276: the next chunk of iter_content; an empty chunk is skipped,
\* any other is handed to f.write
WriteChunk(p) ==
    /\ pc[p] = "write"
    /\ pos[p] <= Len(Body(p))
    /\ LET chunk == Body(p)[pos[p]]
       IN  IF chunk # <<>>
           THEN /\ buf' = [buf EXCEPT ![p] = @ \o chunk]
                /\ Goto(p, "fwrite")
                /\ UNCHANGED pos
           ELSE /\ pos' = [pos EXCEPT ![p] = @ + 1]
                /\ Goto(p, "write")
                /\ UNCHANGED buf
    /\ UNCHANGED <<fsVars, runs, shape, model, fn, reqs, resp1, resp, written,
                   read, shapeVars, normVars>>

\* lines 273, 276: one write(2) of the file object, inside f.write or inside
\* the close at the end of `with`: the first n bytes it holds go to the file
\* at the handle's offset (the close writes all that is left, see Close)
RawWrite(p) ==
    /\ pc[p] \in {"fwrite", "flushing", "closing"}
    /\ \E n \in 1..Len(buf[p]) :
          /\ pc[p] = "closing" => n < Len(buf[p])
          /\ fileData' = Flushed(p, n)
          /\ written' = [written EXCEPT ![p] = @ \o SubSeq(buf[p], 1, n)]
          /\ buf' = [buf EXCEPT ![p] = SubSeq(@, n + 1, Len(@))]
    /\ Goto(p, IF pc[p] = "fwrite" THEN "flushing" ELSE pc[p])
    /\ UNCHANGED <<dirExists, fileExists, made, runs, shape, model, fn, reqs,
                   resp1, resp, pos, read, shapeVars, normVars>>

\* line 276: f.write returns: it wrote nothing (the chunk fits the buffer),
\* or all it held before the chunk is written and what is left of the chunk
\* stays in the buffer
WriteReturn(p) ==
    /\ \/ pc[p] = "fwrite"
       \/ pc[p] = "flushing" /\ Len(buf[p]) <= Len(Body(p)[pos[p]])
    /\ pos' = [pos EXCEPT ![p] = @ + 1]
    /\ Goto(p, "write")
    /\ UNCHANGED <<fsVars, runs, shape, model, fn, reqs, resp1, resp, written,
                   buf, read, shapeVars, normVars>>

\* line 276: a write(2) of f.write fails (disk full, file size limit):
\* f.write raises and the exception leaves the `with` block
WriteFail(p) ==
    /\ pc[p] \in {"fwrite", "flushing"}
    /\ buf[p] # <<>>
    /\ pc' = [pc EXCEPT ![p] = "closing"]
    /\ err' = [err EXCEPT ![p] = "IOError"]
    /\ UNCHANGED <<fsVars, runs, shape, model, fn, netVars, read,
                   shapeVars, normVars>>

\* line 274: iter_content raises (the connection breaks), on any call, the
\* one after the last chunk included; the exception leaves the `with` block
StreamFail(p) ==
    /\ pc[p] = "write"
    /\ pc' = [pc EXCEPT ![p] = "closing"]
    /\ err' = [err EXCEPT ![p] = "ConnectionError"]
    /\ UNCHANGED <<fsVars, runs, shape, model, fn, netVars, read,
                   shapeVars, normVars>>

\* line 274: iter_content is exhausted, the `with` block ends
EndOfBody(p) ==
    /\ pc[p] = "write"
    /\ pos[p] > Len(Body(p))
    /\ Goto(p, "closing")
    /\ UNCHANGED <<fsVars, runs, shape, model, fn, netVars, read,
                   shapeVars, normVars>>

\* mutant: the file is removed when the `with` block is left by an exception
Close_Cleanup(p) ==
    /\ pc[p] = "closing"
    /\ IF err[p] = "none"
       THEN /\ fileData' = Flushed(p, Len(buf[p]))
            /\ UNCHANGED fileExists
       ELSE fileExists' = FALSE /\ fileData' = <<>>
    /\ IF err[p] = "none"
       THEN /\ written' = [written EXCEPT ![p] = @ \o buf[p]]
            /\ buf' = [buf EXCEPT ![p] = <<>>]
            /\ Goto(p, "load")
            /\ UNCHANGED <<shape, model, resp, pos>>
       ELSE Raise(p, err[p])
    /\ UNCHANGED <<dirExists, made, runs, fn, reqs, resp1, read,
                   shapeVars, normVars>>

\* lines 273, 259: the end of `with` closes f, which writes what it still
\* holds; then save_response_content and download_file_from_google_drive
\* return, or the exception that left the block goes on to the caller
Close(p) ==
    /\ pc[p] = "closing"
    /\ fileData' = Flushed(p, Len(buf[p]))
    /\ IF err[p] = "none"
       THEN /\ written' = [written EXCEPT ![p] = @ \o buf[p]]
            /\ buf' = [buf EXCEPT ![p] = <<>>]
            /\ Goto(p, "load")
            /\ UNCHANGED <<shape, model, resp, pos>>
       ELSE Raise(p, err[p])
    /\ UNCHANGED <<dirExists, fileExists, made, runs, fn, reqs, resp1, read,
                   shapeVars, normVars>>

\* line 273: the write(2) of the close fails: what f still holds is lost and
\* the error of the close is the exception the caller gets
CloseFail(p) ==
    /\ pc[p] = "closing"
    /\ buf[p] # <<>>
    /\ Raise(p, "IOError")
    /\ UNCHANGED <<fsVars, runs, fn, reqs, resp1, read, shapeVars, normVars>>

\* line 140: model.load_weights(weights_filename) reads the file as it is;
\* it loads a file that is the checkpoint of this model
LoadWeights(p) ==
    /\ pc[p] = "load"
    /\ fileExists /\ fileData = WeightsFile
    /\ read' = [read EXCEPT ![p] = fileData]
    /\ model' = [model EXCEPT ![p].weights = fileData]
    /\ Goto(p, "install")
    /\ UNCHANGED <<fsVars, runs, shape, fn, netVars, shapeVars, normVars>>

\* line 140: load_weights raises on a missing file and on content that is
\* not the checkpoint (empty, cut short, a page of HTML, mixed, with holes)
LoadFail(p) ==
    /\ pc[p] = "load"
    /\ ~fileExists \/ fileData # WeightsFile
    /\ read' = [read EXCEPT ![p] = IF fileExists THEN fileData ELSE NoData]
    /\ Raise(p, "LoadError")
    /\ UNCHANGED <<fsVars, runs, fn, reqs, resp1, shapeVars, normVars>>

\* lines 106-110: unet_initialize returned; self.function captures model
Install(p) ==
    /\ pc[p] = "install"
    /\ fn' = [fn EXCEPT ![p] = model[p]]
    /\ Goto(p, "classify")
    /\ UNCHANGED <<fsVars, runs, shape, model, netVars, read,
                   shapeVars, normVars>>

\* line 112: the host's run applies self.function to the image and run
\* returns; its locals are gone, self.function stays
Classify(p) ==
    /\ pc[p] = "classify"
    /\ Goto(p, "done")
    /\ model' = [model EXCEPT ![p] = NoModel]
    /\ reqs' = [reqs EXCEPT ![p] = <<>>]
    /\ resp1' = [resp1 EXCEPT ![p] = 0]
    /\ resp' = [resp EXCEPT ![p] = 0]
    /\ pos' = [pos EXCEPT ![p] = 0]
    /\ written' = [written EXCEPT ![p] = <<>>]
    /\ buf' = [buf EXCEPT ![p] = <<>>]
    /\ read' = [read EXCEPT ![p] = NoData]
    /\ shape' = [shape EXCEPT ![p] = <<>>]
    /\ UNCHANGED <<fsVars, runs, fn, shapeVars, normVars>>

Next ==
    \E p \in Procs :
        \/ Run(p) \/ Build(p) \/ Check(p) \/ CheckDir(p) \/ MakeDirs(p)
        \/ MakeDirsFail(p)
        \/ Get1(p) \/ Get1Fail(p) \/ Get2(p) \/ Get2Fail(p)
        \/ Open(p) \/ OpenFail(p) \/ WriteChunk(p) \/ RawWrite(p)
        \/ WriteReturn(p) \/ WriteFail(p) \/ StreamFail(p) \/ EndOfBody(p)
        \/ Close(p) \/ CloseFail(p) \/ LoadWeights(p) \/ LoadFail(p)
        \/ Install(p) \/ Classify(p)

Spec == Init /\ [][Next]_vars


(***************************************************************************)
(* Properties of the provisioning and of run.                              *)
(***************************************************************************)

\* p is between the existence check and the end of the download
InDownload(p) ==
    pc[p] \in {"checkdir", "mkdir", "get1", "get2", "open", "write", "fwrite",
               "flushing", "closing"}

\* p's download_file_from_google_drive returned normally in this invocation
DownloadReturned(p) ==
    pc[p] \in {"load", "install", "classify"} /\ reqs[p] # <<>>

\* the chunks save_response_content writes for a body
NonEmptyChunks(body) == SelectSeq(body, LAMBDA c : c # <<>>)

\* the contents a complete download of one response leaves
CompleteDownloads == {Bytes(NonEmptyChunks(Responses[r].body)) : r \in RespIds}

\* C1: a call of unet_initialize that finds the weights file present goes
\* straight to load_weights: the step of the existence check and every later
\* step of the call issue no GET, create no directory and leave the file and
\* its content as they are, and load_weights is given the file's content as
\* it is, whatever it is.
C1_Idempotent ==
    [][\A p \in Procs :
          /\ (pc[p] = "check" /\ fileExists /\ pc'[p] # pc[p]) =>
                 /\ pc'[p] = "load"
                 /\ UNCHANGED <<dirExists, fileExists, fileData, made, reqs>>
          /\ (pc[p] \in {"load", "install", "classify"} /\ pc'[p] # pc[p]) =>
                 /\ UNCHANGED <<dirExists, fileExists, fileData, made>>
                 /\ Len(reqs'[p]) <= Len(reqs[p])
                 /\ pc[p] = "load" => read'[p] = fileData
                 /\ (pc[p] = "load" /\ pc'[p] = "install") =>
                        model'[p].weights = fileData
      ]_vars

\* a second call of one process finds the file and loads it, no GET issued
C1_Witness ==
    \E p \in Procs :
        /\ runs[p] = 2 /\ pc[p] = "install" /\ reqs[p] = <<>>
        /\ fileData = WeightsFile /\ read[p] = WeightsFile /\ ~made

\* C2: whenever the provisioning step has returned normally (the call is at
\* load_weights) the weights file and its directory exist, whatever existed
\* before; the directory test sends the call to os.makedirs exactly when the
\* directory is absent, and os.makedirs succeeds only on an absent directory.
C2_FileAfterProvisioning ==
    /\ [](\A p \in Procs : pc[p] = "load" => (fileExists /\ dirExists))
    /\ [][\A p \in Procs :
             /\ (pc[p] = "checkdir" /\ pc'[p] # pc[p]) =>
                    /\ (pc'[p] = "mkdir" <=> ~dirExists)
                    /\ (pc'[p] = "get1" <=> dirExists)
                    /\ dirExists' = dirExists
             /\ (pc[p] = "mkdir" /\ pc'[p] = "get1") =>
                    (~dirExists /\ dirExists')
             /\ (dirExists' # dirExists) => (~dirExists /\ made')
         ]_vars

\* neither the directory nor the file existed; the call created both
C2_Witness ==
    \E p \in Procs :
        /\ pc[p] = "load" /\ made /\ fileExists /\ dirExists
        /\ written[p] = WeightsFile /\ fileData = WeightsFile
        /\ \A q \in Procs \ {p} : runs[q] = 0

\* C5 (as claimed): a network failure, an error response for an unknown
\* identifier and a write failure each end download_file_from_google_drive
\* in an exception: after an error response the download never returns
\* normally; after a failure no further GET is issued in the invocation and
\* the file stays as the failed download left it.
C5_AllFailuresFatal ==
    \A p \in Procs :
        /\ (resp[p] # 0 /\ Responses[resp[p]].status >= 400) =>
               ~DownloadReturned(p)
        /\ err[p] \in {"ConnectionError", "IOError"} =>
               (pc[p] \in {"closing", "error"} /\ Len(reqs[p]) <= 2)

\* C6: when self.function is installed and when the host's processing runs,
\* the model in use was constructed in this very invocation of run, from the
\* current image's shape, and the weights file was loaded into it in this
\* invocation; the model a previous invocation left in self.function is
\* never the one in use.
C6_FreshModelEveryRun ==
    \A p \in Procs :
        /\ pc[p] = "install" =>
               /\ model[p].run = runs[p] /\ model[p].shape = shape[p]
               /\ model[p].weights # NoData /\ model[p].weights = read[p]
        /\ pc[p] = "classify" =>
               /\ fn[p] = model[p]
               /\ fn[p].run = runs[p] /\ fn[p].shape = shape[p]
               /\ fn[p].weights # NoData
        /\ pc[p] \in {"build", "check", "load"} => model[p].weights = NoData

\* second invocation on an image of the same shape: a new model is about to
\* be installed while self.function still holds the first one
C6_Witness ==
    \E p \in Procs :
        /\ pc[p] = "install" /\ runs[p] = 2
        /\ fn[p].run = 1 /\ fn[p].shape = shape[p] /\ fn[p].weights = WeightsFile
        /\ model[p].run = 2 /\ model[p].weights = WeightsFile

\* p is between open and the end of the `with` block
InWith(p) == pc[p] \in {"write", "fwrite", "flushing", "closing"}

\* C8: from open on, a download, failing or not, never removes the file:
\* each of its steps, those of a failing close included, changes the file
\* at most by writing out, at the handle's offset, leading parts of what
\* the file object holds, so a failed download leaves the file with what
\* was written, possibly ending inside a chunk; and once the file exists
\* and no process is inside the download, no step changes or removes the
\* file or issues a GET, and every load_weights is given that very content:
\* no later run repairs the cache.
C8_PartialFileStays ==
    [][/\ \A p \in Procs :
             (InWith(p) /\ <<pc[p], pos[p], buf[p]>>' # <<pc[p], pos[p], buf[p]>>) =>
                 /\ fileExists'
                 /\ \E k \in 0..Len(buf[p]) : fileData' = Flushed(p, k)
                 /\ Len(fileData') >= Len(fileData)
       /\ (fileExists /\ \A p \in Procs : ~InDownload(p)) =>
             /\ fileExists' /\ fileData' = fileData
             /\ \A p \in Procs :
                   /\ Len(reqs'[p]) <= Len(reqs[p])
                   /\ ~InDownload(p)'
                   /\ (pc[p] = "load" /\ pc'[p] # pc[p]) => read'[p] = fileData
      ]_vars

\* the cache was empty; p's first run was interrupted with a part of the
\* first chunk in the file; p's second run gave that file to load_weights
\* without any GET
C8_Witness ==
    \E p \in Procs :
        /\ made /\ \A q \in Procs \ {p} : runs[q] = 0
        /\ runs[p] = 2 /\ reqs[p] = <<>> /\ written[p] = <<>>
        /\ fileData = <<"w1">> /\ read[p] = fileData
        /\ pc[p] = "error" /\ err[p] = "LoadError"

\* the first response has a cookie whose key starts with download_warning
HasWarningCookie(r) ==
    \E i \in DOMAIN r.cookies : startswith(r.cookies[i][1], WarnPrefix)

\* the value of the first such cookie in iteration order, or None
FirstWarningValue(r) ==
    LET idx == {i \in DOMAIN r.cookies : startswith(r.cookies[i][1], WarnPrefix)}
    IN  IF idx = {} THEN None
        ELSE r.cookies[CHOOSE i \in idx : \A j \in idx : i <= j][2]

\* the second GET has been issued or skipped
PastFirstResponse(p) == resp1[p] # 0 /\ pc[p] # "get2"

\* C9 (as claimed): at most two GETs, the first with id only, a second one
\* if and only if the first response has a cookie whose key starts with
\* download_warning, carrying that cookie's value as confirm.
C9_Original ==
    \A p \in Procs :
        /\ Len(reqs[p]) <= 2
        /\ reqs[p] # <<>> => reqs[p][1] = [id |-> ModelId]
        /\ PastFirstResponse(p) =>
               (Len(reqs[p]) = 2 <=> HasWarningCookie(Responses[resp1[p]]))

\* C9 (amended): at most two GETs; the first carries only id; a second is
\* issued if and only if the first cookie of the first response whose key
\* starts with download_warning has a non-empty value, and it carries id and
\* confirm set to that value; what the call wrote to the destination, with
\* nothing left in the file object when the call returns, is the content of
\* the non-empty chunks of the body of the last response received.
C9_Requests ==
    \A p \in Procs :
        /\ Len(reqs[p]) <= 2
        /\ reqs[p] # <<>> => reqs[p][1] = [id |-> ModelId]
        /\ PastFirstResponse(p) =>
               (Len(reqs[p]) = 2 <=>
                   FirstWarningValue(Responses[resp1[p]]) \notin {None, ""})
        /\ Len(reqs[p]) = 2 =>
               reqs[p][2] = [id |-> ModelId,
                             confirm |-> FirstWarningValue(Responses[resp1[p]])]
        /\ (pc[p] = "load" /\ reqs[p] # <<>>) =>
               /\ resp[p] # 0
               /\ Len(reqs[p]) = 1 => resp[p] = resp1[p]
               /\ written[p] = Bytes(NonEmptyChunks(Responses[resp[p]].body))
               /\ buf[p] = <<>>

\* warning page first, then the file: two GETs, the file's body written
C9_Witness ==
    \E p \in Procs :
        /\ pc[p] = "load" /\ Len(reqs[p]) = 2
        /\ reqs[p][2] = [id |-> ModelId, confirm |-> "t1"]
        /\ resp1[p] = 2 /\ resp[p] = 1 /\ written[p] = WeightsFile

\* every byte of the file is at the offset it has in the download it comes
\* from (or in the file the cache held at the start), or is a byte of a hole
OwnOffsets ==
    \A i \in DOMAIN fileData :
        \/ fileData[i] = Hole
        \/ \E d \in CompleteDownloads : i <= Len(d) /\ d[i] = fileData[i]

\* between open and the end of `with`, with bytes still to write
StillWriting(q) ==
    \/ pc[q] \in {"write", "fwrite", "flushing"} /\ pos[q] <= Len(Body(q))
    \/ pc[q] \in {"fwrite", "flushing", "closing"} /\ buf[q] # <<>>

\* C10: no lock separates the existence check from the write. Whatever the
\* other processes are doing, a process at the existence check can take it,
\* and is sent to the download whenever the file is absent at that moment; a
\* process at open can open (and truncate) the file, a writer can hand its
\* next chunk to f.write, write to the file and close it, and a process at
\* load_weights is given the file by load_weights or by its failure. The
\* writers do not see each other: each writes its bytes at its own offsets,
\* so the file holds, byte by byte, a byte of one of the downloads at its
\* place in that download or a byte of a hole, and need not be the complete
\* download of any writer.
C10_NoLock ==
    /\ OwnOffsets
    /\ \A p \in Procs :
          /\ pc[p] = "check" => ENABLED Check(p)
          /\ (pc[p] = "check" /\ ~fileExists) =>
                 ENABLED (Check(p) /\ pc'[p] = "checkdir")
          /\ pc[p] = "open" => ENABLED Open(p)
          /\ (pc[p] = "write" /\ pos[p] <= Len(Body(p))) => ENABLED WriteChunk(p)
          /\ (pc[p] \in {"fwrite", "flushing"} /\ buf[p] # <<>>) =>
                 ENABLED RawWrite(p)
          /\ pc[p] = "closing" => ENABLED Close(p)
          /\ pc[p] = "load" => ENABLED (LoadWeights(p) \/ LoadFail(p))

\* the file was absent and both processes passed the check and opened it;
\* p wrote the checkpoint, closed and loaded it while q had the file open.
\* In its next invocation p saw the file exist, issued no request, and
\* load_weights loaded the checkpoint again while q was still writing; q has
\* since written the first byte of the error page over the checkpoint, and
\* has more to write: the file is the complete download of neither
C10_Witness ==
    \E p, q \in Procs :
        /\ p # q /\ made
        /\ runs[p] = 2 /\ pc[p] = "install" /\ reqs[p] = <<>>
        /\ read[p] = WeightsFile
        /\ runs[q] = 1 /\ StillWriting(q) /\ written[q] = <<"e1">>
        /\ fileData = <<"e1", "w2", "w3">>
        /\ fileData \notin CompleteDownloads

=============================================================================
